---- MODULE Spec2Model ----
(***************************************************************************)
(* Model of main.py: the trading loop main() / trade() with its persisted  *)
(* portfolio (positions.json, balance.json, trade_log.json).               *)
(*                                                                         *)
(* Numbers.  The program computes with floats; the model computes with     *)
(* exact integers on a grid that makes every product exact:                *)
(*   price  in units of 0.25 USDT           (200 = 50.00 USDT)             *)
(*   qty    in units of 1e-6                (round(x, 6) is an integer)    *)
(*   cash   in units of 0.25e-6 USDT        (= qty unit * price unit)      *)
(* START_BALANCE = 100.12493175 USDT = 400499727 cash units.               *)
(***************************************************************************)
EXTENDS Integers, Sequences, FiniteSets, TLC

\* ---------------------------------------------------------------- bounds
NumPairs == 2        \* number of symbols in TRADING_PAIRS
MaxLog == 2          \* analyze_opportunity gives signals while the trade log
                     \* holds fewer records than this
EarlierEntries == 8  \* LowCashSpec: at most this many positions were entered
                     \* in other symbols before the cycle that is looked at

\* ------------------------------------------------------ program constants
LIVE_MODE == FALSE
START_BALANCE == 400499727
all_pairs ==
  <<"BNBUSDT", "BTCUSDT", "ETHUSDT", "SOLUSDT", "XRPUSDT",
    "DOGEUSDT", "PEPEUSDT", "ADAUSDT", "SUIUSDT", "LINKUSDT",
    "PROMUSDT", "WBTCUSDT", "PAXGUSDT", "AWEUSDT", "REQUSDT",
    "BARUSDT", "ACMUSDT", "NEXOUSDT", "DEXEUSDT",
    "VOXELUSDT", "FIDAUSDT", "SYNUSDT", "ARDRUSDT", "JASMYUSDT",
    "ROSEUSDT", "FLOKIUSDT", "C98USDT", "BAKEUSDT", "MAGICUSDT">>
\* get_cached_valid_pairs keeps the order of all_pairs
TRADING_PAIRS == SubSeq(all_pairs, 1, NumPairs)
Symbols == {TRADING_PAIRS[i] : i \in 1..Len(TRADING_PAIRS)}

\* get_price: a positive float, or None when the ticker call fails
NoPrice == 0 - 1
Prices == {200, 220}
Quotes == Prices \cup {NoPrice}

\* analyze_opportunity returns None or ("BUY"|"SHORT", headlines)
Signals == {"BUY", "SHORT"}
Results == Signals \cup {"None"}

VARIABLES
  pc,          \* position of main(): "trade", "loop", "save_balance",
               \* "equity", "except", "sleep"
  idx,         \* index into TRADING_PAIRS of the symbol the loop is at
  positions,   \* trade(): positions dict, symbol -> {type, qty, entry}
  balance,     \* trade(): balance["usdt"]
  price,       \* trade(): local price of the last symbol looked at
  signal,      \* trade(): local signal, assigned at line 207 only
  posFile,     \* contents of positions.json
  balFile,     \* contents of balance.json ("usdt")
  log,         \* contents of trade_log.json
  exc,         \* the call that raised in the current cycle, or "none"
  saved,       \* the current cycle has written both portfolio files
  goalReached, \* history: line 253 ("trades paused") has been executed
  sent,        \* the messages the last step called send() with
  analysis     \* analyze_opportunity: the data it fetched and what it gave

vars == <<pc, idx, positions, balance, price, signal, posFile,
          balFile, log, exc, saved, goalReached, sent, analysis>>

\* ----------------------------------------------------------- arithmetic
\* round(n/d) to the nearest integer, ties to even (Python's round), d > 0
RoundHalfEven(n, d) ==
  LET a == IF n < 0 THEN 0 - n ELSE n
      q == a \div d
      r == a % d
      m == IF 2 * r > d \/ (2 * r = d /\ q % 2 = 1) THEN q + 1 ELSE q
  IN  IF n < 0 THEN 0 - m ELSE m

\* line 208: qty = round((balance["usdt"] * 0.5) / price, 6)
EntryQty(bal, p) == RoundHalfEven(bal, 2 * p)

\* line 209: qty * price > balance["usdt"]
NotEnoughBalance(qty, p, bal) == qty * p > bal

\* a debit applied twice
DebitTwice(bal, qty, p) == bal - 2 * qty * p

\* lines 217, 222: balance["usdt"] -= qty * price
Debit(bal, qty, p) == bal - qty * p

\* line 239: balance["usdt"] += qty * price
Credit(bal, qty, p) == bal + qty * p

\* a profit threshold of zero
TakeProfitAtZero(pos, p) ==
  IF pos.type = "LONG" THEN p >= pos.entry ELSE pos.entry >= p

\* line 234 and 236: pnl >= 1 (entry > 0, so the division is multiplied out)
TakeProfit(pos, p) ==
  IF pos.type = "LONG"
    THEN (p - pos.entry) * 100 >= 1 * pos.entry
    ELSE (pos.entry - p) * 100 >= 1 * pos.entry

\* lines 249, 252: (total - START_BALANCE) / START_BALANCE * 100 >= 3
DailyGoal(total) ==
  (total - START_BALANCE) >= ((3 * START_BALANCE + 99) \div 100)

\* lines 249, 256: (total - START_BALANCE) / START_BALANCE * 100 >= 1
PortfolioUp(total) ==
  (total - START_BALANCE) >= ((1 * START_BALANCE + 99) \div 100)

\* ---------------------------------------------------------------- dicts
EmptyDict == [s \in {} |-> 0]
SetItem(d, k, v) == [s \in (DOMAIN d) \cup {k} |-> IF s = k THEN v ELSE d[s]]
DelItem(d, k) == [s \in (DOMAIN d) \ {k} |-> d[s]]

\* lines 216, 221: the position record of an entry
PositionType(sig) == IF sig = "BUY" THEN "LONG" ELSE "SHORT"
NewPosition(sig, qty, p) == [type |-> PositionType(sig), qty |-> qty, entry |-> p]

\* line 133: the record log_trade appends (timestamp left out)
LogRecord(sym, typ, qty, p) == [symbol |-> sym, type |-> typ, qty |-> qty, price |-> p]

\* line 247: invested = sum(p["qty"] * get_price(sym) ...)
RECURSIVE Invested(_, _, _)
Invested(pos, quote, syms) ==
  IF syms = {} THEN 0
  ELSE LET s == CHOOSE x \in syms : TRUE
       IN  pos[s].qty * quote[s] + Invested(pos, quote, syms \ {s})

\* an entry branch that does not look at the positions
IsFlatAlways(symbol, pos) == TRUE

\* line 213: symbol not in positions
IsFlat(symbol, pos) == symbol \notin DOMAIN pos

\* no call of analyze_opportunity is under way
NoAnalysis ==
  [klines |-> [len |-> 0, week_ago |-> 0, three_days_ago |-> 0,
               hour_ago |-> 0, now |-> 0, swing |-> 0, vol_prev |-> 0,
               vol_recent |-> 0],
   headlines |-> <<>>, result |-> "none"]

\* ------------------------------------------------------------------ init
\* load_json creates a missing file with its default: {} and START_BALANCE
Init ==
  /\ pc = "trade"
  /\ idx = 1
  /\ positions = EmptyDict
  /\ balance = 0
  /\ price = NoPrice
  /\ signal = "None"
  /\ posFile = EmptyDict
  /\ balFile = START_BALANCE
  /\ log = <<>>
  /\ exc = "none"
  /\ saved = FALSE
  /\ goalReached = FALSE
  /\ sent = <<>>
  /\ analysis = NoAnalysis

\* --------------------------------------------------------------- trade()
\* an exception leaves trade(): its frame (the in-memory portfolio and the
\* loop's locals) is gone when main()'s handler runs
Unwind ==
  /\ positions' = EmptyDict
  /\ balance' = 0
  /\ price' = NoPrice
  /\ signal' = "None"

\* lines 191-193: a new call of trade() loads the portfolio from the files
Load ==
  /\ pc = "trade"
  /\ positions' = posFile
  /\ balance' = balFile
  /\ idx' = 1
  /\ pc' = "loop"
  /\ sent' = <<>>
  /\ UNCHANGED <<price, signal, posFile, balFile, log, exc, saved,
                 goalReached, analysis>>

InLoop == pc = "loop" /\ idx <= Len(TRADING_PAIRS)

\* the market gives signals while the trade log is shorter than MaxLog
MaySignal == Len(log) < MaxLog

\* lines 196-199: no price, the symbol is skipped
PriceUnavailable ==
  /\ InLoop
  /\ price' = NoPrice
  /\ idx' = idx + 1
  /\ sent' = <<>>
  /\ UNCHANGED <<pc, positions, balance, signal, posFile, balFile,
                 log, exc, saved, goalReached, analysis>>

\* lines 201-203: save_price or analyze_opportunity raises; nothing in
\* trade() catches it, so the call of trade() ends here
SymbolRaises ==
  /\ InLoop
  /\ \E e \in {"save_price", "analyze_opportunity"} : exc' = e
  /\ pc' = "except"
  /\ Unwind
  /\ sent' = <<>>
  /\ UNCHANGED <<idx, posFile, balFile, log, saved, goalReached, analysis>>

\* lines 203-205: analyze_opportunity returns None
NoResult ==
  /\ InLoop
  /\ \E p \in Prices : price' = p
  /\ idx' = idx + 1
  /\ sent' = <<>>
  /\ UNCHANGED <<pc, positions, balance, signal, posFile, balFile,
                 log, exc, saved, goalReached, analysis>>

\* lines 207-227: a signal for a symbol without a position; line 227 sends
\* the one BUY or SHORT message.  place_order
\* can raise in LIVE_MODE only; log_trade (save_json) can raise always, and
\* then the position and the debit of lines 216-217 / 221-222, already made
\* in memory, go with the frame.
Entry(p, sig, orderOk, logOk) ==
  LET symbol == TRADING_PAIRS[idx]
      qty == EntryQty(balance, p)
  IN  IF NotEnoughBalance(qty, p, balance)
        THEN /\ price' = p
             /\ signal' = sig
             /\ idx' = idx + 1
             /\ sent' = <<>>
             /\ UNCHANGED <<pc, positions, balance, log, exc>>
      ELSE IF ~orderOk
        THEN /\ pc' = "except"
             /\ exc' = "place_order"
             /\ Unwind
             /\ sent' = <<>>
             /\ UNCHANGED <<idx, log>>
      ELSE IF ~logOk
        THEN /\ pc' = "except"
             /\ exc' = "log_trade"
             /\ Unwind
             /\ sent' = <<>>
             /\ UNCHANGED <<idx, log>>
      ELSE /\ price' = p
           /\ signal' = sig
           /\ positions' = SetItem(positions, symbol, NewPosition(sig, qty, p))
           /\ balance' = Debit(balance, qty, p)
           /\ log' = Append(log, LogRecord(symbol, sig, qty, p))
           /\ sent' = <<sig>>
           /\ idx' = idx + 1
           /\ UNCHANGED <<pc, exc>>

OpenPosition ==
  /\ InLoop
  /\ MaySignal
  /\ IsFlat(TRADING_PAIRS[idx], positions)
  /\ \E p \in Prices, sig \in Signals,
        orderOk \in (IF LIVE_MODE THEN BOOLEAN ELSE {TRUE}),
        logOk \in BOOLEAN :
       Entry(p, sig, orderOk, logOk)
  /\ UNCHANGED <<posFile, balFile, saved, goalReached, analysis>>

\* lines 207-211, 229-242: a signal for a symbol with a position; the exit
\* check of line 236 is reached only here, after a BUY or SHORT signal, and
\* line 241 sends the one CLOSE message
Manage(p, sig, orderOk, logOk) ==
  LET symbol == TRADING_PAIRS[idx]
      pos == positions[symbol]
  IN  IF NotEnoughBalance(EntryQty(balance, p), p, balance)
         \/ ~TakeProfit(pos, p)
        THEN /\ price' = p
             /\ signal' = sig
             /\ idx' = idx + 1
             /\ sent' = <<>>
             /\ UNCHANGED <<pc, positions, balance, log, exc>>
      ELSE IF ~orderOk
        THEN /\ pc' = "except"
             /\ exc' = "place_order"
             /\ Unwind
             /\ sent' = <<>>
             /\ UNCHANGED <<idx, log>>
      ELSE IF ~logOk
        THEN /\ pc' = "except"
             /\ exc' = "log_trade"
             /\ Unwind
             /\ sent' = <<>>
             /\ UNCHANGED <<idx, log>>
      ELSE /\ price' = p
           /\ signal' = sig
           /\ balance' = Credit(balance, pos.qty, p)
           /\ log' = Append(log, LogRecord(symbol, "CLOSE-" \o pos.type,
                                           pos.qty, p))
           /\ sent' = <<"CLOSE">>
           /\ positions' = DelItem(positions, symbol)
           /\ idx' = idx + 1
           /\ UNCHANGED <<pc, exc>>

ManagePosition ==
  /\ InLoop
  /\ MaySignal
  /\ ~IsFlat(TRADING_PAIRS[idx], positions)
  /\ \E p \in Prices, sig \in Signals,
        orderOk \in (IF LIVE_MODE THEN BOOLEAN ELSE {TRUE}),
        logOk \in BOOLEAN :
       Manage(p, sig, orderOk, logOk)
  /\ UNCHANGED <<posFile, balFile, saved, goalReached, analysis>>

\* line 244: save_json(POSITION_FILE, positions)
SavePositions ==
  /\ pc = "loop"
  /\ idx > Len(TRADING_PAIRS)
  /\ posFile' = positions
  /\ pc' = "save_balance"
  /\ sent' = <<>>
  /\ UNCHANGED <<idx, positions, balance, price, signal, balFile,
                 log, exc, saved, goalReached, analysis>>

\* line 245: save_json(BALANCE_FILE, balance)
SaveBalance ==
  /\ pc = "save_balance"
  /\ balFile' = balance
  /\ saved' = TRUE
  /\ pc' = "equity"
  /\ sent' = <<>>
  /\ UNCHANGED <<idx, positions, balance, price, signal, posFile,
                 log, exc, goalReached, analysis>>

\* lines 244-245: save_json raises (the file cannot be opened for writing)
SaveRaises ==
  /\ \/ pc = "loop" /\ idx > Len(TRADING_PAIRS)
     \/ pc = "save_balance"
  /\ exc' = "save_json"
  /\ pc' = "except"
  /\ Unwind
  /\ sent' = <<>>
  /\ UNCHANGED <<idx, posFile, balFile, log, saved, goalReached, analysis>>

\* trade() is over: its frame is gone, and so is what the cycle recorded
Return ==
  /\ Unwind
  /\ idx' = 1
  /\ saved' = FALSE
  /\ exc' = "none"

\* lines 136-139: some record of the trade log has today's date; a record
\* written in an earlier cycle may be of today or of an earlier day
TradesOccurredToday == IF log = <<>> THEN {FALSE} ELSE BOOLEAN

\* lines 247-257: equity of the portfolio; get_price is called again for
\* every open position, and qty * None raises TypeError.  Line 253 sends
\* the "daily goal reached" message, line 257 the "portfolio up" message.
Equity ==
  /\ pc = "equity"
  /\ \E quote \in [DOMAIN positions -> Quotes] :
       IF \E s \in DOMAIN positions : quote[s] = NoPrice
         THEN /\ exc' = "TypeError"
              /\ pc' = "except"
              /\ Unwind
              /\ sent' = <<>>
              /\ UNCHANGED <<idx, saved, goalReached>>
         ELSE LET total == balance + Invested(positions, quote, DOMAIN positions)
              IN  /\ goalReached' = (goalReached \/ DailyGoal(total))
                  /\ \E today \in TradesOccurredToday :
                       sent' = IF DailyGoal(total) THEN <<"GOAL">>
                               ELSE IF today /\ PortfolioUp(total) THEN <<"UP">>
                               ELSE <<>>
                  /\ pc' = "sleep"
                  /\ Return
  /\ UNCHANGED <<posFile, balFile, log, analysis>>

\* ---------------------------------------------------------------- main()
\* a handler outside the while loop (lines 277-279): main() returns
AfterExceptLeaves == "exit"

\* lines 270-275: the except clause is inside the while loop, so control
\* goes on to time.sleep(300)
AfterExcept == "sleep"

\* lines 272-274: the loop's handler prints and notifies
MainExcept ==
  /\ pc = "except"
  /\ pc' = AfterExcept
  /\ Return
  /\ sent' = <<"ERROR">>
  /\ UNCHANGED <<posFile, balFile, log, goalReached, analysis>>

\* line 275 and 269: sleep, then the next iteration calls trade()
Sleep ==
  /\ pc = "sleep"
  /\ pc' = "trade"
  /\ sent' = <<>>
  /\ UNCHANGED <<idx, positions, balance, price, signal, posFile,
                 balFile, log, exc, saved, goalReached, analysis>>

Next ==
  \/ Load
  \/ PriceUnavailable
  \/ SymbolRaises
  \/ NoResult
  \/ OpenPosition
  \/ ManagePosition
  \/ SavePositions
  \/ SaveBalance
  \/ SaveRaises
  \/ Equity
  \/ MainExcept
  \/ Sleep

Spec == Init /\ [][Next]_vars

\* the process is sequential and nothing else runs: the handler returns,
\* time.sleep(300) returns, and the next iteration calls trade()
FairSpec ==
  Spec /\ WF_vars(MainExcept) /\ WF_vars(Sleep) /\ WF_vars(Load)

\* ------------------------------------------- a cycle with little cash left
\* The portfolio after k entries (BUY at 50.00) in the k symbols that follow
\* TRADING_PAIRS in all_pairs: every entry of lines 208-217 takes half of
\* the cash that is left.
RECURSIVE EarlierPortfolio(_)
EarlierPortfolio(k) ==
  IF k = 0
    THEN [positions |-> EmptyDict, usdt |-> START_BALANCE, log |-> <<>>]
    ELSE LET before == EarlierPortfolio(k - 1)
             symbol == all_pairs[NumPairs + k]
             qty == EntryQty(before.usdt, 200)
         IN  [positions |-> SetItem(before.positions, symbol,
                                    NewPosition("BUY", qty, 200)),
              usdt |-> Debit(before.usdt, qty, 200),
              log |-> Append(before.log, LogRecord(symbol, "BUY", qty, 200))]

\* the files hold the portfolio after up to EarlierEntries entries
LowCashInit ==
  /\ pc = "trade"
  /\ idx = 1
  /\ positions = EmptyDict
  /\ balance = 0
  /\ price = NoPrice
  /\ signal = "None"
  /\ \E k \in 0..EarlierEntries :
       /\ posFile = EarlierPortfolio(k).positions
       /\ balFile = EarlierPortfolio(k).usdt
       /\ log = EarlierPortfolio(k).log
  /\ exc = "none"
  /\ saved = FALSE
  /\ goalReached = FALSE
  /\ sent = <<>>
  /\ analysis = NoAnalysis

\* lines 207-227: a signal for a symbol without a position, however long
\* the trade log is
SignalEntry ==
  /\ InLoop
  /\ IsFlat(TRADING_PAIRS[idx], positions)
  /\ \E p \in Prices, sig \in Signals,
        orderOk \in (IF LIVE_MODE THEN BOOLEAN ELSE {TRUE}),
        logOk \in BOOLEAN :
       Entry(p, sig, orderOk, logOk)
  /\ UNCHANGED <<posFile, balFile, saved, goalReached, analysis>>

\* one call of trade() up to the end of line 245
LowCashNext ==
  \/ Load
  \/ PriceUnavailable
  \/ NoResult
  \/ SignalEntry
  \/ SavePositions
  \/ SaveBalance

LowCashSpec == LowCashInit /\ [][LowCashNext]_vars

\* ---------------------------------------------------- analyze_opportunity
\* A string is the sequence of its characters.
UpperCase == <<"A", "B", "C", "D", "E", "F", "G", "H", "I", "J", "K", "L", "M">> \o
             <<"N", "O", "P", "Q", "R", "S", "T", "U", "V", "W", "X", "Y", "Z">>
LowerCase == <<"a", "b", "c", "d", "e", "f", "g", "h", "i", "j", "k", "l", "m">> \o
             <<"n", "o", "p", "q", "r", "s", "t", "u", "v", "w", "x", "y", "z">>

\* line 176, 179: h.lower()
LowerChar(c) ==
  IF \E i \in 1..Len(UpperCase) : UpperCase[i] = c
    THEN LowerCase[CHOOSE i \in 1..Len(UpperCase) : UpperCase[i] = c]
    ELSE c
LowerStr(h) == [i \in 1..Len(h) |-> LowerChar(h[i])]

\* line 176, 179: word in text (substring)
Contains(text, word) ==
  \E i \in 1..(Len(text) - Len(word) + 1) :
    SubSeq(text, i, i + Len(word) - 1) = word

\* line 173
bad_words ==
  <<<<"l", "a", "w", "s", "u", "i", "t">>,
    <<"b", "a", "n">>,
    <<"h", "a", "c", "k">>,
    <<"c", "r", "a", "s", "h">>,
    <<"r", "e", "g", "u", "l", "a", "t", "i", "o", "n">>,
    <<"i", "n", "v", "e", "s", "t", "i", "g", "a", "t", "i", "o", "n">>>>

\* line 174
good_words ==
  <<<<"s", "u", "r", "g", "e">>,
    <<"r", "a", "l", "l", "y">>,
    <<"g", "a", "i", "n">>,
    <<"p", "a", "r", "t", "n", "e", "r", "s", "h", "i", "p">>,
    <<"b", "u", "l", "l", "i", "s", "h">>,
    <<"u", "p", "g", "r", "a", "d", "e">>,
    <<"a", "d", "o", "p", "t", "i", "o", "n">>>>

\* a bad-word test that compares the headline as it is written
AnyBadAsWritten(headlines) ==
  \E i \in 1..Len(headlines), j \in 1..Len(bad_words) :
    Contains(headlines[i], bad_words[j])

\* line 176: any(any(bad in h.lower() for bad in bad_words) for h in headlines)
AnyBad(headlines) ==
  \E i \in 1..Len(headlines), j \in 1..Len(bad_words) :
    Contains(LowerStr(headlines[i]), bad_words[j])

\* line 179: any(any(good in h.lower() for good in good_words) for h in ...)
AnyGood(headlines) ==
  \E i \in 1..Len(headlines), j \in 1..Len(good_words) :
    Contains(LowerStr(headlines[i]), good_words[j])

RECURSIVE Sum(_)
Sum(q) == IF q = <<>> THEN 0 ELSE q[1] + Sum(Tail(q))

\* line 161, 168: statistics.stdev(closes[-24:]) / now > 0.02, for now > 0.
\* The sample variance of n values x is (n*sum(y^2) - sum(y)^2) / (n*(n-1))
\* for y = x - now, and stdev > 0.02 * now iff variance > 0.0004 * now^2.
HighVolatility(last, now) ==
  LET n == Len(last)
      y == [i \in 1..n |-> last[i] - now]
      squares == [i \in 1..n |-> y[i] * y[i]]
  IN  2500 * (n * Sum(squares) - Sum(y) * Sum(y)) > n * (n - 1) * now * now

\* a threshold that has to be exceeded
PctAbove(now, past, m) == (now - past) * 100 > m * past

\* lines 156-158, 184: ((now - past) / past) * 100 >= m, for past > 0
PctAtLeast(now, past, m) == (now - past) * 100 >= m * past

\* lines 156-158, 186: ((now - past) / past) * 100 <= -m, for past > 0
PctAtMost(now, past, m) == (now - past) * 100 <= (0 - m) * past

\* lines 143-188: klines is the list get_klines returned (its closes and
\* volumes), headlines the list get_news_headlines returned.  The result is
\* "None", "BUY", "SHORT", or the exception raised by a division by 0.0.
AnalyzeOpportunity(klines, headlines) ==
  IF Len(klines) < 168 THEN "None"
  ELSE
    LET n == Len(klines)
        closes == [i \in 1..n |-> klines[i].close]
        volumes == [i \in 1..n |-> klines[i].volume]
        now == closes[n]
        hour_ago == closes[n - 1]
        three_days_ago == closes[n - 71]
        week_ago == closes[1]
        vol_recent == Sum(SubSeq(volumes, n - 5, n))
        vol_prev == Sum(SubSeq(volumes, n - 11, n - 6))
    IN  IF hour_ago = 0 \/ three_days_ago = 0 \/ week_ago = 0 \/ now = 0
          THEN "ZeroDivisionError"
        ELSE IF vol_recent <= vol_prev THEN "None"
        ELSE IF HighVolatility(SubSeq(closes, n - 23, n), now) THEN "None"
        ELSE IF AnyBad(headlines) THEN "None"
        ELSE IF ~AnyGood(headlines) THEN "None"
        ELSE IF /\ PctAtLeast(now, hour_ago, 1)
                /\ PctAtLeast(now, three_days_ago, 2)
                /\ PctAtLeast(now, week_ago, 3) THEN "BUY"
        ELSE IF /\ PctAtMost(now, hour_ago, 1)
                /\ PctAtMost(now, three_days_ago, 2)
                /\ PctAtMost(now, week_ago, 3) THEN "SHORT"
        ELSE "None"

\* The hourly klines get_klines can return, described by the values the
\* function reads: the closes a week, three days and an hour ago and now,
\* the closes of the last day (hour_ago and hour_ago + swing in turn), and
\* the volumes of the last 6 hours and of the hours before.
KlineInputs ==
  [len : {0, 167}, week_ago : {100}, three_days_ago : {100},
   hour_ago : {100}, now : {103}, swing : {0}, vol_prev : {2},
   vol_recent : {3}]
  \cup
  [len : {168}, week_ago : {0, 98, 100}, three_days_ago : {0, 98, 100},
   hour_ago : {0, 100}, now : {0, 97, 101, 102, 103}, swing : {0, 6},
   vol_prev : {2}, vol_recent : {1, 2, 3}]

\* line 144: the list of klines, oldest first
KlineSeries(k) ==
  [i \in 1..k.len |->
     [close |-> IF i = k.len THEN k.now
                ELSE IF i = k.len - 1 THEN k.hour_ago
                ELSE IF i > k.len - 24
                  THEN (IF i % 2 = 0 THEN k.hour_ago + k.swing ELSE k.hour_ago)
                ELSE IF i = 1 THEN k.week_ago
                ELSE k.three_days_ago,
      volume |-> IF i > k.len - 6 THEN k.vol_recent ELSE k.vol_prev]]

\* line 171: the titles get_news_headlines can return (at most 5)
HeadlineInputs ==
  {<<>>,
   <<<<"c", "a", "l", "m">>>>,
   <<<<"r", "a", "l", "l", "y">>>>,
   <<<<"H", "A", "C", "K">>>>,
   <<<<"r", "a", "l", "l", "y">>, <<"H", "a", "c", "k">>>>,
   <<<<"B", "a", "n", "k", " ", "g", "a", "i", "n">>>>}

\* lines 196-203 of one symbol: the price is there, analyze_opportunity
\* fetches klines and headlines and computes its result
Analyze ==
  /\ InLoop
  /\ analysis = NoAnalysis
  /\ \E p \in Prices, k \in KlineInputs, h \in HeadlineInputs :
       /\ price' = p
       /\ analysis' = [klines |-> k, headlines |-> h,
                       result |-> AnalyzeOpportunity(KlineSeries(k), h)]
  /\ sent' = <<>>
  /\ UNCHANGED <<pc, idx, positions, balance, signal, posFile, balFile,
                 log, exc, saved, goalReached>>

\* lines 203-242 of the same symbol: the exception leaves trade(), None
\* skips the symbol, a signal goes to the entry or exit branch
ActOnResult ==
  /\ InLoop
  /\ analysis # NoAnalysis
  /\ analysis' = NoAnalysis
  /\ IF analysis.result = "ZeroDivisionError"
       THEN /\ pc' = "except"
            /\ exc' = "analyze_opportunity"
            /\ Unwind
            /\ sent' = <<>>
            /\ UNCHANGED <<idx, log>>
     ELSE IF analysis.result = "None"
       THEN /\ idx' = idx + 1
            /\ sent' = <<>>
            /\ UNCHANGED <<pc, positions, balance, price, signal, log, exc>>
     ELSE \E orderOk \in (IF LIVE_MODE THEN BOOLEAN ELSE {TRUE}),
             logOk \in BOOLEAN :
            IF IsFlat(TRADING_PAIRS[idx], positions)
              THEN Entry(price, analysis.result, orderOk, logOk)
              ELSE Manage(price, analysis.result, orderOk, logOk)
  /\ UNCHANGED <<posFile, balFile, saved, goalReached>>

\* one call of trade() with analyze_opportunity computed from its data
AnalyzeNext ==
  \/ Load
  \/ Analyze
  \/ ActOnResult

AnalyzeSpec == Init /\ [][AnalyzeNext]_vars

TypeOK ==
  /\ pc \in {"trade", "loop", "save_balance", "equity", "except", "sleep"}
  /\ idx \in 1..(Len(TRADING_PAIRS) + 1)
  /\ DOMAIN positions \subseteq Symbols
  /\ DOMAIN posFile \subseteq Symbols
  /\ price \in Quotes
  /\ signal \in Results

\* ------------------------------------------------- the trade log's account
\* the positions the records of the trade log add up to
RECURSIVE PositionsOfLog(_)
PositionsOfLog(l) ==
  IF l = <<>> THEN EmptyDict
  ELSE LET r == l[Len(l)]
           before == PositionsOfLog(SubSeq(l, 1, Len(l) - 1))
       IN  IF r.type \in Signals
             THEN SetItem(before, r.symbol, NewPosition(r.type, r.qty, r.price))
             ELSE DelItem(before, r.symbol)

\* START_BALANCE - sum of entry notionals + sum of exit notionals of the log
RECURSIVE CashOfLog(_)
CashOfLog(l) ==
  IF l = <<>> THEN START_BALANCE
  ELSE LET r == l[Len(l)]
           before == CashOfLog(SubSeq(l, 1, Len(l) - 1))
       IN  IF r.type \in Signals
             THEN before - r.qty * r.price
             ELSE before + r.qty * r.price

SymbolExc == {"save_price", "analyze_opportunity", "place_order", "log_trade"}
CollaboratorExc == {"place_order", "log_trade", "save_json"}

\* ---------------------------------------------------------------- claims
\* C1: the cash balance, in memory and in the balance file, is never
\* negative, whatever quotes, signals and failures the cycles meet.
C1_CashNeverNegative == balance >= 0 /\ balFile >= 0

\* two entries of one cycle have each debited the cash
C1_Witness ==
  /\ pc = "loop"
  /\ Cardinality(DOMAIN positions) >= 2
  /\ balance >= 0
  /\ 2 * balance < START_BALANCE

\* C2: while trade() evaluates symbols, a symbol that has a position keeps
\* exactly that position or loses it: no step creates, replaces or enlarges
\* the position of a symbol that is already open.
C2_NoPyramiding ==
  [][pc = "loop" =>
       \A s \in DOMAIN positions :
         s \notin DOMAIN positions' \/ positions'[s] = positions[s]]_vars

\* the first symbol of the cycle had a position from the file, got a BUY or
\* SHORT signal, and still has the same position
C2_Witness ==
  /\ pc = "loop"
  /\ idx = 2
  /\ signal \in Signals
  /\ TRADING_PAIRS[1] \in DOMAIN posFile
  /\ TRADING_PAIRS[1] \in DOMAIN positions
  /\ positions[TRADING_PAIRS[1]] = posFile[TRADING_PAIRS[1]]

\* C3: whenever the loop is done with a symbol that has a position and a
\* quote, the position is closed (removed, cash credited by qty*price) if
\* its pnl_pct is >= the profit threshold, and left as it is otherwise.
C3_ProfitTakingMandatory ==
  [][(InLoop /\ idx' = idx + 1 /\ price' # NoPrice
        /\ TRADING_PAIRS[idx] \in DOMAIN positions) =>
       LET s == TRADING_PAIRS[idx]
       IN  IF TakeProfit(positions[s], price')
             THEN /\ s \notin DOMAIN positions'
                  /\ balance' = balance + positions[s].qty * price'
             ELSE /\ s \in DOMAIN positions'
                  /\ positions'[s] = positions[s]
                  /\ balance' = balance]_vars

\* C4: once the daily goal has been reached at the end of a cycle, no step
\* of a later cycle opens a position.
C4_BreakerLatch ==
  [][(goalReached /\ pc = "loop") =>
       DOMAIN positions' \subseteq DOMAIN positions]_vars

\* C5: the cash balance is the starting balance minus the notionals of the
\* logged entries plus the notionals of the logged exits: in memory while
\* the loop runs, in the balance file between cycles.
C5_CashAccounting ==
  /\ pc = "loop" => balance = CashOfLog(log)
  /\ pc \in {"sleep", "trade"} => balFile = CashOfLog(log)

\* C6: wherever a cycle has stopped (returned or raised), the persisted
\* positions and the persisted cash are those the trade log adds up to.
C6_PersistedConsistent ==
  pc \in {"except", "sleep", "trade"} =>
    /\ posFile = PositionsOfLog(log)
    /\ balFile = CashOfLog(log)

\* C7: when place_order, log_trade or save_json has failed, the portfolio
\* the program is left with (the files the next cycle loads) is that of the
\* confirmed actions: no confirmed entry or exit is lost.
C7_FailureKeepsConfirmed ==
  (pc = "except" /\ exc \in CollaboratorExc) =>
    /\ PositionsOfLog(log) = posFile
    /\ CashOfLog(log) = balFile

\* C8: a cycle in which the evaluation of a symbol raised has still
\* evaluated every later symbol and saved the portfolio.
C8_SymbolIsolation ==
  (pc = "except" /\ exc \in SymbolExc) =>
    (idx > Len(TRADING_PAIRS) /\ saved)

\* C9: after a cycle that raised, the main loop starts another cycle.
C9_LoopSurvives == (pc = "except") ~> (pc = "loop" /\ idx = 1)

\* a new cycle runs although an earlier one logged a trade and never saved
C9_Witness ==
  /\ pc = "loop"
  /\ log # <<>>
  /\ posFile = EmptyDict
  /\ balFile = START_BALANCE

\* C10: a symbol without a quote is skipped with positions and cash
\* unchanged and the cycle goes on; no missing quote makes the cycle fail,
\* the equity computation included.
C10_MissingQuoteSkips ==
  [][/\ (InLoop /\ price' = NoPrice) =>
          (positions' = positions /\ balance' = balance /\ pc' = "loop"
             /\ idx' = idx + 1)
     /\ exc' # "TypeError"]_vars

\* the pnl of a position at price p is below the profit threshold of 1 %
NoExitCondition(pos, p) ==
  \/ pos.type = "LONG" /\ 100 * p < 101 * pos.entry
  \/ pos.type = "SHORT" /\ 100 * p > 99 * pos.entry

\* C12: a completed evaluation of a symbol that has a position, at a price
\* at which no exit condition is met (its entry price, say), leaves the
\* positions, the cash and the trade log as they were, whatever the signal
\* and in every cycle in which it happens.
C12_Idempotence ==
  [][(InLoop /\ idx' = idx + 1 /\ price' \in Prices
        /\ TRADING_PAIRS[idx] \in DOMAIN positions
        /\ NoExitCondition(positions[TRADING_PAIRS[idx]], price')) =>
       (positions' = positions /\ balance' = balance /\ log' = log)]_vars

\* a later cycle got a signal for the open first symbol at its entry price,
\* and the portfolio in memory is still the one of the files
C12_Witness ==
  /\ pc = "loop"
  /\ idx = 2
  /\ signal \in Signals
  /\ TRADING_PAIRS[1] \in DOMAIN posFile
  /\ price = posFile[TRADING_PAIRS[1]].entry
  /\ positions = posFile
  /\ balance = balFile

\* C14: the quantity of every entry is half the cash divided by the price,
\* rounded down to 6 decimals, so its notional is at most half the cash
\* before the entry, and the cash after it is the cash before minus the
\* notional.
C14_EntrySizing ==
  [][(InLoop /\ TRADING_PAIRS[idx] \notin DOMAIN positions
        /\ TRADING_PAIRS[idx] \in DOMAIN positions') =>
       LET pos == positions'[TRADING_PAIRS[idx]]
       IN  /\ pos.qty = balance \div (2 * pos.entry)
           /\ 2 * pos.qty * pos.entry <= balance
           /\ balance' = balance - pos.qty * pos.entry]_vars

\* C19: whenever a position, LONG or SHORT, is closed, the cash credited at
\* the close is strictly greater than the cash debited at its entry.
C19_RealizedProfitPositive ==
  [][(InLoop /\ TRADING_PAIRS[idx] \in DOMAIN positions
        /\ TRADING_PAIRS[idx] \notin DOMAIN positions' /\ pc' = "loop") =>
       LET pos == positions[TRADING_PAIRS[idx]]
       IN  balance' - balance > pos.qty * pos.entry]_vars

\* the records of the trade log for one symbol, in order
SymbolLog(s) == SelectSeq(log, LAMBDA r : r.symbol = s)

\* entries and closes alternate, starting with an entry, and every close
\* has the side and the quantity of the entry before it
Alternates(l) ==
  \A i \in 1..Len(l) :
    IF i % 2 = 1
      THEN l[i].type \in Signals
      ELSE /\ l[i].type = "CLOSE-" \o PositionType(l[i - 1].type)
           /\ l[i].qty = l[i - 1].qty

\* C20: for every symbol the trade log alternates entry and close records,
\* starting with an entry, each close matching the entry before it; and
\* between cycles, abandoned ones included, the symbol has a position in
\* the positions file exactly when its last record is an entry.
C20_LogOrdering ==
  \A s \in Symbols :
    /\ Alternates(SymbolLog(s))
    /\ pc \in {"except", "sleep", "trade"} =>
         (s \in DOMAIN posFile <=> Len(SymbolLog(s)) % 2 = 1)

TradeMessages == {<<"BUY">>, <<"SHORT">>, <<"CLOSE">>}

\* C11: an entry sends exactly one BUY or SHORT message and an exit exactly
\* one CLOSE message; a step that changes no position sends no trade
\* message; the step in which the daily goal is reached sends exactly one
\* message, and no later cycle sends that message again.
C11_OneNotification ==
  [][/\ (InLoop /\ TRADING_PAIRS[idx] \notin DOMAIN positions
           /\ TRADING_PAIRS[idx] \in DOMAIN positions') =>
          sent' \in {<<"BUY">>, <<"SHORT">>}
     /\ (InLoop /\ TRADING_PAIRS[idx] \in DOMAIN positions
           /\ TRADING_PAIRS[idx] \notin DOMAIN positions' /\ pc' = "loop") =>
          sent' = <<"CLOSE">>
     /\ (~InLoop \/ positions' = positions) => sent' \notin TradeMessages
     /\ (~goalReached /\ goalReached') => sent' = <<"GOAL">>
     /\ goalReached => sent' # <<"GOAL">>]_vars

\* C13: every position held has a notional qty * entry of at least the
\* minimum trade size, 0.25 USDT (1000000 cash units), so its quantity and
\* its entry price are positive, also when earlier entries have used up
\* most of the cash.
C13_MinimumTradeSize ==
  \A s \in DOMAIN positions :
    /\ positions[s].qty * positions[s].entry >= 1000000
    /\ positions[s].qty > 0
    /\ positions[s].entry > 0

\* two characters are the same letter in either case, or the same character
SameLetter(a, b) ==
  \/ a = b
  \/ \E m \in 1..Len(UpperCase) : {a, b} = {UpperCase[m], LowerCase[m]}

\* some headline contains some word of the list, whatever the case
Mentions(headlines, words) ==
  \E i \in 1..Len(headlines), j \in 1..Len(words) :
    \E off \in 0..(Len(headlines[i]) - Len(words[j])) :
      \A c \in 1..Len(words[j]) :
        SameLetter(headlines[i][off + c], words[j][c])

Analyzed(a) == a # NoAnalysis

\* C15: whenever one of the headlines contains an adverse keyword, in any
\* case and with or without a favorable keyword next to it,
\* analyze_opportunity gives neither BUY nor SHORT, and the step of trade()
\* that follows opens no position.
C15_AdverseNewsVeto ==
  [][/\ (Analyzed(analysis') /\ Mentions(analysis'.headlines, bad_words)) =>
          analysis'.result \notin Signals
     /\ (Analyzed(analysis) /\ Mentions(analysis.headlines, bad_words)) =>
          DOMAIN positions' \subseteq DOMAIN positions]_vars

\* a rising series with rising volume and low volatility, and headlines
\* with a favorable keyword and an adverse one in capitals: no signal
C15_Witness ==
  /\ Analyzed(analysis)
  /\ analysis.klines.len = 168
  /\ analysis.klines.now = 103
  /\ analysis.klines.hour_ago = 100
  /\ analysis.klines.three_days_ago = 100
  /\ analysis.klines.week_ago = 100
  /\ analysis.klines.swing = 0
  /\ analysis.klines.vol_recent > analysis.klines.vol_prev
  /\ Mentions(analysis.headlines, good_words)
  /\ Mentions(analysis.headlines, bad_words)
  /\ \E i \in 1..Len(analysis.headlines) :
       analysis.headlines[i] # LowerStr(analysis.headlines[i])
  /\ analysis.result = "None"

\* the volume, volatility and headline filters pass for a full series whose
\* four closes are positive, so that the three changes are defined
FiltersPass(a) ==
  LET k == a.klines
      series == KlineSeries(k)
      closes == [i \in 1..k.len |-> series[i].close]
  IN  /\ k.len = 168
      /\ k.now > 0 /\ k.hour_ago > 0
      /\ k.three_days_ago > 0 /\ k.week_ago > 0
      /\ 6 * k.vol_recent > 6 * k.vol_prev
      /\ ~HighVolatility(SubSeq(closes, k.len - 23, k.len), k.now)
      /\ ~Mentions(a.headlines, bad_words)
      /\ Mentions(a.headlines, good_words)

C17_VolumeConfirmation ==
  (/\ Analyzed(analysis)
   /\ analysis.klines.len = 168
   /\ 6 * analysis.klines.vol_recent <= 6 * analysis.klines.vol_prev) =>
    analysis.result = "None"

\* a close that analyze_opportunity divides by is 0
ZeroDenominator(a) ==
  /\ Analyzed(a)
  /\ a.klines.len = 168
  /\ 0 \in {a.klines.hour_ago, a.klines.three_days_ago, a.klines.week_ago,
            a.klines.now}

\* C18: when the close 1 hour, 3 days or 7 days ago or the latest close is
\* 0, analyze_opportunity returns no signal and raises nothing, and the
\* cycle goes on to the next symbol.
C18_ZeroDenominatorGuard ==
  [][/\ ZeroDenominator(analysis') => analysis'.result = "None"
     /\ ZeroDenominator(analysis) => (pc' = "loop" /\ idx' = idx + 1)]_vars
====
